---- MODULE Spec2Model ----
(***************************************************************************)
(* Model of lazyagent's task graph (src/state/tasks.rs): the TasksFile     *)
(* collection, its structural validation (unique ids, dependency           *)
(* references, Kahn cycle check) and its derived views (ready tasks,       *)
(* blocked tasks, topological order), driven by a sequential caller.       *)
(*                                                                         *)
(* Task ids are strings in the source; only their equality and their       *)
(* position in a HashMap's iteration order matter, so they are modelled    *)
(* as the integers 1..NumIds and the iteration order of a HashMap (which   *)
(* std's RandomState seeds per map) is a nondeterministic permutation.     *)
(***************************************************************************)
EXTENDS Integers, Sequences, FiniteSets, TLC

\* Bounds of the model.
MaxTasks == 3
NumIds == 3
MaxDeps == 2
MaxEdges == 3
\* Longer collections, with few dependency entries.
MaxWide == 4
MaxWideEdges == 1
\* Dependency entries of the longer collections a scheduler runs on.
MaxSchedEdges == 2
\* Projects of a Config.
MaxProjects == 2

Ids == 1..NumIds
NoId == 0
Title == "t"

\* tasks, pc, ret: the TasksFile at hand, the caller's position and the value
\* the last call returned. sched: the scheduler's bookkeeping. config: the
\* Config at hand. kahn: the locals of a check_no_cycles() in progress.
VARIABLES tasks, pc, ret, sched, config, kahn

vars == <<tasks, pc, ret, sched, config, kahn>>

\* struct Task { id, title, completed, depends }, depends of at most d entries.
Task(d) == [id : Ids, title : {Title}, completed : BOOLEAN,
            depends : UNION {[1..n -> Ids] : n \in 0..d}]

\* The number of depends entries of a TasksFile.
RECURSIVE EdgeCount(_, _)
EdgeCount(ts, i) ==
    IF i > Len(ts) THEN 0 ELSE Len(ts[i].depends) + EdgeCount(ts, i + 1)

\* struct TasksFile { tasks: Vec<Task> }: the collections of n tasks with at
\* most d depends entries per task and e in all.
TasksFile(n, d, e) == {ts \in [1..n -> Task(d)] : EdgeCount(ts, 1) <= e}

\* The collections the model starts from.
Inputs ==
    UNION {TasksFile(n, MaxDeps, MaxEdges) : n \in 0..MaxTasks}
    \cup UNION {TasksFile(n, MaxWideEdges, MaxWideEdges) : n \in (MaxTasks + 1)..MaxWide}

\* The value a call hands back to its caller.
Ret(op, kind, id, dep, list) ==
    [op |-> op, kind |-> kind, id |-> id, dep |-> dep, list |-> list]

NoRet == Ret("none", "none", NoId, NoId, <<>>)

Ok == [kind |-> "Ok", id |-> NoId, dep |-> NoId]

\* The set of keys of a map built by inserting every task's id.
IdSet(ts) == {ts[i].id : i \in 1..Len(ts)}

\* The orders in which iterating a HashMap may yield the keys in S.
HashOrders(S) ==
    {q \in [1..Cardinality(S) -> S] : \A i, j \in 1..Cardinality(S) : q[i] = q[j] => i = j}

----
\* check_unique_ids: one pass, inserting each id into `seen`.
RECURSIVE UniqueScan(_, _, _)
UniqueScan(ts, i, seen) ==
    IF i > Len(ts) THEN Ok
    ELSE IF ts[i].id \in seen
         THEN [kind |-> "DuplicateId", id |-> ts[i].id, dep |-> NoId]
         ELSE UniqueScan(ts, i + 1, seen \cup {ts[i].id})

\* Variant: the pass runs over the tasks from the last to the first.
RECURSIVE UniqueScanRev(_, _, _)
UniqueScanRev(ts, i, seen) ==
    IF i < 1 THEN Ok
    ELSE IF ts[i].id \in seen
         THEN [kind |-> "DuplicateId", id |-> ts[i].id, dep |-> NoId]
         ELSE UniqueScanRev(ts, i - 1, seen \cup {ts[i].id})

check_unique_ids_rev(ts) == UniqueScanRev(ts, Len(ts), {})

check_unique_ids(ts) == UniqueScan(ts, 1, {})

\* check_dependency_refs: every task, every depends entry, in order.
RECURSIVE RefScan(_, _, _, _)
RefScan(ts, valid_ids, i, j) ==
    IF i > Len(ts) THEN Ok
    ELSE IF j > Len(ts[i].depends) THEN RefScan(ts, valid_ids, i + 1, 1)
    ELSE IF ts[i].depends[j] \notin valid_ids
         THEN [kind |-> "DanglingDep", id |-> ts[i].id, dep |-> ts[i].depends[j]]
         ELSE RefScan(ts, valid_ids, i, j + 1)

\* Variant: only the first entry of each depends list is looked up.
check_dependency_refs_first(ts) ==
    LET bad == {i \in 1..Len(ts) :
                  Len(ts[i].depends) > 0 /\ ts[i].depends[1] \notin IdSet(ts)}
    IN IF bad = {} THEN Ok
       ELSE LET i == CHOOSE i \in bad : \A k \in bad : i <= k
            IN [kind |-> "DanglingDep", id |-> ts[i].id, dep |-> ts[i].depends[1]]

check_dependency_refs(ts) == RefScan(ts, IdSet(ts), 1, 1)

----
\* in_degree after the first loop: insert(&task.id, task.depends.len()) for
\* every task in order; a later insert under an equal key replaces the value.
RECURSIVE InDegreeScan(_, _, _)
InDegreeScan(ts, i, m) ==
    IF i > Len(ts) THEN m
    ELSE InDegreeScan(ts, i + 1,
            [k \in DOMAIN m \cup {ts[i].id} |->
                IF k = ts[i].id THEN Len(ts[i].depends) ELSE m[k]])

\* Variant: only the depends entries that name no completed task count.
InDegree_pending(ts) ==
    [k \in IdSet(ts) |->
        LET i == CHOOSE i \in 1..Len(ts) :
                    ts[i].id = k /\ \A m \in (i + 1)..Len(ts) : ts[m].id # k
        IN Cardinality({j \in 1..Len(ts[i].depends) :
                          ~\E m \in 1..Len(ts) :
                              ts[m].id = ts[i].depends[j] /\ ts[m].completed})]

\* Variant: the in-degree counts the distinct ids of the depends list.
InDegree_distinct(ts) ==
    [k \in IdSet(ts) |->
        LET i == CHOOSE i \in 1..Len(ts) :
                    ts[i].id = k /\ \A m \in (i + 1)..Len(ts) : ts[m].id # k
        IN Cardinality({ts[i].depends[j] : j \in 1..Len(ts[i].depends)})]

InDegree(ts) == InDegreeScan(ts, 1, <<>>)

\* adj_list after both loops: an empty Vec per id, then for every task and
\* every depends entry in order, adj_list.get_mut(dep_id).unwrap().push(id).
\* unwrap() on a dep_id that is no key panics.
RECURSIVE AdjScan(_, _, _, _)
AdjScan(ts, i, j, adj) ==
    IF i > Len(ts) THEN [panic |-> FALSE, adj |-> adj]
    ELSE IF j > Len(ts[i].depends) THEN AdjScan(ts, i + 1, 1, adj)
    ELSE LET dep_id == ts[i].depends[j] IN
         IF dep_id \notin DOMAIN adj
         THEN [panic |-> TRUE, adj |-> adj]
         ELSE AdjScan(ts, i, j + 1,
                 [adj EXCEPT ![dep_id] = Append(@, ts[i].id)])

\* Variant: the edge is stored on the dependent, pointing at the dependency
\* (adj_list.get_mut(&task.id).unwrap().push(dep_id)).
RECURSIVE AdjScanReversed(_, _, _, _)
AdjScanReversed(ts, i, j, adj) ==
    IF i > Len(ts) THEN [panic |-> FALSE, adj |-> adj]
    ELSE IF j > Len(ts[i].depends) THEN AdjScanReversed(ts, i + 1, 1, adj)
    ELSE AdjScanReversed(ts, i, j + 1,
             [adj EXCEPT ![ts[i].id] = Append(@, ts[i].depends[j])])

AdjList_reversed(ts) == AdjScanReversed(ts, 1, 1, [k \in IdSet(ts) |-> <<>>])

AdjList(ts) == AdjScan(ts, 1, 1, [k \in IdSet(ts) |-> <<>>])

\* in_degree.iter().filter(degree == 0).map(id).collect(), the map being
\* iterated in the order `order` (a permutation of its keys).
RECURSIVE ZeroDegree(_, _, _)
ZeroDegree(in_degree, order, i) ==
    IF i > Len(order) THEN <<>>
    ELSE IF in_degree[order[i]] = 0
         THEN <<order[i]>> \o ZeroDegree(in_degree, order, i + 1)
         ELSE ZeroDegree(in_degree, order, i + 1)

\* `*degree -= 1` on a usize. A negative n stands for the wrapped value
\* 2^64 + n, the representative a build without overflow checks computes.
WrappingDec(x) == x - 1

\* The inner for loop over the dependents of the popped id. `checks` says
\* whether the build has overflow checks (a debug build panics on 0 - 1).
\* Variant: the dependent is queued when its degree reaches 1, not 0.
RECURSIVE Relax_early(_, _, _, _, _)
Relax_early(dependents, k, in_degree, queue, checks) ==
    IF k > Len(dependents)
    THEN [panic |-> FALSE, in_degree |-> in_degree, queue |-> queue]
    ELSE LET dependent_id == dependents[k] IN
         IF dependent_id \notin DOMAIN in_degree
            \/ (in_degree[dependent_id] = 0 /\ checks)
         THEN [panic |-> TRUE, in_degree |-> in_degree, queue |-> queue]
         ELSE LET degree == WrappingDec(in_degree[dependent_id]) IN
              Relax_early(dependents, k + 1,
                    [in_degree EXCEPT ![dependent_id] = degree],
                    IF degree = 1 THEN Append(queue, dependent_id) ELSE queue,
                    checks)

RECURSIVE Relax(_, _, _, _, _)
Relax(dependents, k, in_degree, queue, checks) ==
    IF k > Len(dependents)
    THEN [panic |-> FALSE, in_degree |-> in_degree, queue |-> queue]
    ELSE LET dependent_id == dependents[k] IN
         IF dependent_id \notin DOMAIN in_degree
            \/ (in_degree[dependent_id] = 0 /\ checks)
         THEN [panic |-> TRUE, in_degree |-> in_degree, queue |-> queue]
         ELSE LET degree == WrappingDec(in_degree[dependent_id]) IN
              Relax(dependents, k + 1,
                    [in_degree EXCEPT ![dependent_id] = degree],
                    IF degree = 0 THEN Append(queue, dependent_id) ELSE queue,
                    checks)

\* while let Some(task_id) = queue.pop() { ... }: `popped` lists the ids in
\* the order they were popped.
RECURSIVE KahnLoop(_, _, _, _, _)
KahnLoop(queue, in_degree, adj_list, popped, checks) ==
    IF queue = <<>> THEN [panic |-> FALSE, popped |-> popped]
    ELSE LET task_id == queue[Len(queue)]
             rest == SubSeq(queue, 1, Len(queue) - 1)
             r == IF task_id \in DOMAIN adj_list
                  THEN Relax(adj_list[task_id], 1, in_degree, rest, checks)
                  ELSE [panic |-> FALSE, in_degree |-> in_degree, queue |-> rest]
         IN IF r.panic THEN [panic |-> TRUE, popped |-> popped]
            ELSE KahnLoop(r.queue, r.in_degree, adj_list,
                          Append(popped, task_id), checks)

\* The elimination shared by check_no_cycles and topological_order.
Kahn(ts, order, checks) ==
    LET a == AdjList(ts) IN
    IF a.panic THEN [panic |-> TRUE, popped |-> <<>>]
    ELSE KahnLoop(ZeroDegree(InDegree(ts), order, 1), InDegree(ts), a.adj,
                  <<>>, checks)

\* Variant: the cycle error is raised on processed > self.tasks.len().
check_no_cycles_gt(ts, order, checks) ==
    LET k == Kahn(ts, order, checks) IN
    IF k.panic THEN [kind |-> "Panic", id |-> NoId, dep |-> NoId]
    ELSE IF Len(k.popped) > Len(ts)
         THEN [kind |-> "Circular", id |-> NoId, dep |-> NoId]
         ELSE Ok

\* check_no_cycles: processed != self.tasks.len() is the cycle error.
check_no_cycles(ts, order, checks) ==
    LET k == Kahn(ts, order, checks) IN
    IF k.panic THEN [kind |-> "Panic", id |-> NoId, dep |-> NoId]
    ELSE IF Len(k.popped) # Len(ts)
         THEN [kind |-> "Circular", id |-> NoId, dep |-> NoId]
         ELSE Ok

\* Variant: the dependency references are checked before the ids.
validate_refs_first(ts, order, checks) ==
    LET d == check_dependency_refs(ts) IN
    IF d.kind # "Ok" THEN d
    ELSE LET u == check_unique_ids(ts) IN
         IF u.kind # "Ok" THEN u
         ELSE check_no_cycles(ts, order, checks)

\* validate: the three checks in order, `?` returning the first error.
validate(ts, order, checks) ==
    LET u == check_unique_ids(ts) IN
    IF u.kind # "Ok" THEN u
    ELSE LET d == check_dependency_refs(ts) IN
         IF d.kind # "Ok" THEN d
         ELSE check_no_cycles(ts, order, checks)

----
\* get_task_by_id: the first task whose id matches, or None.
get_task_by_id(ts, id) ==
    IF \E i \in 1..Len(ts) : ts[i].id = id
    THEN LET i == CHOOSE i \in 1..Len(ts) :
                    /\ ts[i].id = id
                    /\ \A j \in 1..(i - 1) : ts[j].id # id
         IN [some |-> TRUE, task |-> ts[i]]
    ELSE [some |-> FALSE, task |-> <<>>]

\* Variant: map_or(true, |t| t.completed), a missing task counts as completed.
DepCompleted_missing(ts, dep_id) ==
    \A i \in 1..Len(ts) :
        (ts[i].id = dep_id /\ \A k \in 1..(i - 1) : ts[k].id # dep_id) => ts[i].completed

\* get_task_by_id(dep_id).map_or(false, |t| t.completed)
DepCompleted(ts, dep_id) ==
    LET o == get_task_by_id(ts, dep_id) IN
    IF o.some THEN o.task.completed ELSE FALSE

\* Variant: map_or(false, |t| !t.completed), a missing task is no obstacle.
DepUnsatisfied_present(ts, dep_id) ==
    LET o == get_task_by_id(ts, dep_id) IN
    IF o.some THEN ~o.task.completed ELSE FALSE

\* get_task_by_id(dep_id).map_or(true, |t| !t.completed)
DepUnsatisfied(ts, dep_id) ==
    LET o == get_task_by_id(ts, dep_id) IN
    IF o.some THEN ~o.task.completed ELSE TRUE

\* Variant: .any(..) in place of .all(..).
AllDepsCompleted_any(ts, task) ==
    \E j \in 1..Len(task.depends) : DepCompleted(ts, task.depends[j])

\* task.depends.iter().all(..) of get_ready_tasks.
AllDepsCompleted(ts, task) ==
    \A j \in 1..Len(task.depends) : DepCompleted(ts, task.depends[j])

\* Variant: the filter leaves out the dependencies.
RECURSIVE ReadyScan_nodeps(_, _)
ReadyScan_nodeps(ts, i) ==
    IF i > Len(ts) THEN <<>>
    ELSE IF ~ts[i].completed
         THEN <<ts[i]>> \o ReadyScan_nodeps(ts, i + 1)
         ELSE ReadyScan_nodeps(ts, i + 1)

\* Variant: the filter leaves out `!task.completed`.
RECURSIVE ReadyScan_nofilter(_, _)
ReadyScan_nofilter(ts, i) ==
    IF i > Len(ts) THEN <<>>
    ELSE IF AllDepsCompleted(ts, ts[i])
         THEN <<ts[i]>> \o ReadyScan_nofilter(ts, i + 1)
         ELSE ReadyScan_nofilter(ts, i + 1)

\* get_ready_tasks: filter over the tasks in order.
RECURSIVE ReadyScan(_, _)
ReadyScan(ts, i) ==
    IF i > Len(ts) THEN <<>>
    ELSE IF ~ts[i].completed /\ AllDepsCompleted(ts, ts[i])
         THEN <<ts[i]>> \o ReadyScan(ts, i + 1)
         ELSE ReadyScan(ts, i + 1)

get_ready_tasks(ts) == ReadyScan(ts, 1)

\* The inner filter of get_blocked_tasks: the depends entries, in order, whose
\* task is missing (map_or(true, ..)) or not completed.
RECURSIVE Unsatisfied(_, _, _)
Unsatisfied(ts, depends, j) ==
    IF j > Len(depends) THEN <<>>
    ELSE IF DepUnsatisfied(ts, depends[j])
         THEN <<depends[j]>> \o Unsatisfied(ts, depends, j + 1)
         ELSE Unsatisfied(ts, depends, j + 1)

\* get_blocked_tasks: the not-completed tasks with a non-empty unsatisfied
\* list, each paired with that list.
RECURSIVE BlockedScan(_, _)
BlockedScan(ts, i) ==
    IF i > Len(ts) THEN <<>>
    ELSE LET unsatisfied == Unsatisfied(ts, ts[i].depends, 1) IN
         IF ~ts[i].completed /\ unsatisfied # <<>>
         THEN <<[task |-> ts[i], unsatisfied |-> unsatisfied]>> \o BlockedScan(ts, i + 1)
         ELSE BlockedScan(ts, i + 1)

get_blocked_tasks(ts) == BlockedScan(ts, 1)

\* The result Vec of topological_order: for each popped id, the task
\* get_task_by_id finds (pushed only if Some).
RECURSIVE ResultOf(_, _, _)
ResultOf(ts, popped, i) ==
    IF i > Len(popped) THEN <<>>
    ELSE LET o == get_task_by_id(ts, popped[i]) IN
         IF o.some THEN <<o.task>> \o ResultOf(ts, popped, i + 1)
         ELSE ResultOf(ts, popped, i + 1)

\* topological_order: the same elimination, collecting the removed tasks.
topological_order(ts, order, checks) ==
    LET k == Kahn(ts, order, checks) IN
    IF k.panic THEN [kind |-> "Panic", list |-> <<>>]
    ELSE LET result == ResultOf(ts, k.popped, 1) IN
         IF Len(result) # Len(ts)
         THEN [kind |-> "Circular", list |-> <<>>]
         ELSE [kind |-> "Ok", list |-> result]

----
\* Variant: the parsed collection is returned without validate().
load_from_unchecked(io, content, order, checks) ==
    IF io = "ReadFailed" THEN [kind |-> "ReadFailed", id |-> NoId, dep |-> NoId, list |-> <<>>]
    ELSE IF io = "ParseFailed" THEN [kind |-> "ParseFailed", id |-> NoId, dep |-> NoId, list |-> <<>>]
    ELSE [kind |-> "Ok", id |-> NoId, dep |-> NoId, list |-> content]

\* load_from: read the file, parse it, validate the parsed TasksFile and
\* return it; each `?` returns the error instead. `io` is the outcome of
\* reading and parsing, `content` the TasksFile the document describes.
load_from(io, content, order, checks) ==
    IF io = "ReadFailed" THEN [kind |-> "ReadFailed", id |-> NoId, dep |-> NoId, list |-> <<>>]
    ELSE IF io = "ParseFailed" THEN [kind |-> "ParseFailed", id |-> NoId, dep |-> NoId, list |-> <<>>]
    ELSE LET v == validate(content, order, checks) IN
         IF v.kind # "Ok" THEN [kind |-> v.kind, id |-> v.id, dep |-> v.dep, list |-> <<>>]
         ELSE [kind |-> "Ok", id |-> NoId, dep |-> NoId, list |-> content]

----
\* total_tasks, completed_tasks, remaining_tasks: counts over the collection.
total_tasks(ts) == Len(ts)

completed_tasks(ts) == Cardinality({i \in 1..Len(ts) : ts[i].completed})

\* Variant: remaining_tasks counts every task.
remaining_tasks_all(ts) == Len(ts)

remaining_tasks(ts) == Cardinality({i \in 1..Len(ts) : ~ts[i].completed})

\* incomplete_tasks: the not-completed tasks, in order.
RECURSIVE IncompleteScan(_, _)
IncompleteScan(ts, i) ==
    IF i > Len(ts) THEN <<>>
    ELSE IF ~ts[i].completed THEN <<ts[i]>> \o IncompleteScan(ts, i + 1)
         ELSE IncompleteScan(ts, i + 1)

incomplete_tasks(ts) == IncompleteScan(ts, 1)

----
\* The scheduler's bookkeeping: the number of incomplete tasks it started
\* with, the completion steps it has taken, the ready list its last step
\* acted on and the ids that step marked completed.
NoSched == [start |-> 0, steps |-> 0, prev |-> <<>>, marked |-> {}]

\* No check_no_cycles() is in progress: its locals do not exist.
NoKahn ==
    [in_degree |-> <<>>, adj_list |-> <<>>, queue |-> <<>>, processed |-> 0,
     popped |-> <<>>, checks |-> FALSE, panic |-> FALSE]

\* Config::new(): the default ui and agent sections and no project.
ConfigNew ==
    [agent |-> [engine |-> "claude", max_iterations |-> 3], projects |-> <<>>]

----
\* The state after construction: a TasksFile deserialized from a document
\* or built as a literal, not yet validated, and a caller that has called
\* nothing.
Init ==
    /\ tasks \in Inputs
    /\ pc = "idle"
    /\ ret = NoRet
    /\ sched = NoSched
    /\ config = ConfigNew
    /\ kahn = NoKahn

Validate ==
    /\ pc = "idle"
    /\ \E order \in HashOrders(IdSet(tasks)), checks \in BOOLEAN :
         LET v == validate(tasks, order, checks) IN
         ret' = Ret("validate", v.kind, v.id, v.dep, <<>>)
    /\ pc' = "returned"
    /\ UNCHANGED <<tasks, sched, config, kahn>>

TopologicalOrder ==
    /\ pc = "idle"
    /\ \E order \in HashOrders(IdSet(tasks)), checks \in BOOLEAN :
         LET t == topological_order(tasks, order, checks) IN
         ret' = Ret("topological_order", t.kind, NoId, NoId, t.list)
    /\ pc' = "returned"
    /\ UNCHANGED <<tasks, sched, config, kahn>>

GetReadyTasks ==
    /\ pc = "idle"
    /\ ret' = Ret("get_ready_tasks", "Ok", NoId, NoId, get_ready_tasks(tasks))
    /\ pc' = "returned"
    /\ UNCHANGED <<tasks, sched, config, kahn>>

GetBlockedTasks ==
    /\ pc = "idle"
    /\ ret' = Ret("get_blocked_tasks", "Ok", NoId, NoId, get_blocked_tasks(tasks))
    /\ pc' = "returned"
    /\ UNCHANGED <<tasks, sched, config, kahn>>

\* load_from on a document that describes the tasks at hand.
LoadFrom ==
    /\ pc = "idle"
    /\ \E io \in {"Ok", "ReadFailed", "ParseFailed"} :
         \E order \in (IF io = "Ok" THEN HashOrders(IdSet(tasks)) ELSE {<<>>}),
            checks \in (IF io = "Ok" THEN BOOLEAN ELSE {TRUE}) :
            LET l == load_from(io, tasks, order, checks) IN
            ret' = Ret("load_from", l.kind, l.id, l.dep, l.list)
    /\ pc' = "returned"
    /\ UNCHANGED <<tasks, sched, config, kahn>>

\* The caller is done with the returned value.
Return ==
    /\ pc = "returned"
    /\ pc' = "idle"
    /\ ret' = NoRet
    /\ kahn' = NoKahn
    /\ UNCHANGED <<tasks, sched, config>>

Next ==
    \/ Validate
    \/ TopologicalOrder
    \/ GetReadyTasks
    \/ GetBlockedTasks
    \/ LoadFrom
    \/ Return

Spec == Init /\ [][Next]_vars

----
(***************************************************************************)
(* The scheduling cycle of the surrounding system: load the collection,   *)
(* ask for the ready tasks, mark a non-empty part of them completed, ask  *)
(* again.                                                                  *)
(***************************************************************************)

\* Collections of MaxWide tasks over as many ids, none completed yet.
WideTask ==
    [id : 1..MaxWide, title : {Title}, completed : {FALSE},
     depends : UNION {[1..n -> 1..MaxWide] : n \in 0..MaxWideEdges}]

WideInputs ==
    {ts \in [1..MaxWide -> WideTask] : EdgeCount(ts, 1) <= MaxSchedEdges}

\* What load_from hands to the scheduler: the collections it returns Ok for.
Loaded(S) ==
    {ts \in S : \E order \in HashOrders(IdSet(ts)), checks \in BOOLEAN :
                   load_from("Ok", ts, order, checks).kind = "Ok"}

SchedInit ==
    /\ tasks \in Loaded(Inputs) \cup Loaded(WideInputs)
    /\ pc = "idle"
    /\ ret = NoRet
    /\ sched = [NoSched EXCEPT !.start = remaining_tasks(tasks)]
    /\ config = ConfigNew
    /\ kahn = NoKahn

\* The executor finished some of the tasks the last get_ready_tasks()
\* returned: their completed flags are set, and the scheduler asks again.
Complete ==
    /\ pc = "returned"
    /\ ret.op = "get_ready_tasks"
    /\ \E S \in SUBSET {ret.list[p].id : p \in 1..Len(ret.list)} :
         /\ S # {}
         /\ tasks' = [i \in 1..Len(tasks) |->
                        IF tasks[i].id \in S
                        THEN [tasks[i] EXCEPT !.completed = TRUE]
                        ELSE tasks[i]]
         /\ sched' = [sched EXCEPT !.steps = @ + 1, !.prev = ret.list, !.marked = S]
    /\ pc' = "idle"
    /\ ret' = NoRet
    /\ UNCHANGED <<config, kahn>>

\* A result with nothing to dispatch is dropped.
SchedReturn ==
    /\ ~(ret.op = "get_ready_tasks" /\ ret.list # <<>>)
    /\ Return

SchedNext ==
    \/ GetReadyTasks
    \/ Complete
    \/ GetBlockedTasks
    \/ SchedReturn

\* The scheduler keeps running: it never stops while a step is possible,
\* and it asks for the ready tasks again and again, whatever else it asks.
SchedSpec ==
    SchedInit /\ [][SchedNext]_vars /\ WF_vars(SchedNext) /\ SF_vars(GetReadyTasks)

----
(***************************************************************************)
(* Config::validate (src/config/mod.rs). Of a Config only the fields that  *)
(* validate() reads are kept. A path is the sequence of its components,    *)
(* "/" first when it starts at the root.                                   *)
(***************************************************************************)
\* Option<u32>
NoneU32 == [some |-> FALSE, value |-> 0]
SomeU32(n) == [some |-> TRUE, value |-> n]

\* Option<ProjectOverrides>, of which validate() reads max_iterations.
NoOverrides == [some |-> FALSE, max_iterations |-> NoneU32]
SomeOverrides(m) == [some |-> TRUE, max_iterations |-> m]

\* The values the numeric fields take in the model.
U32Values == {0, 1}

\* struct ProjectConfig
ProjectConfig ==
    [name : {"", "p"},
     repo_path : {<<"repo">>, <<"/", "repo">>},
     base_branch : {"", "main"},
     max_parallel : U32Values,
     overrides : {NoOverrides, SomeOverrides(NoneU32)}
                 \cup {SomeOverrides(SomeU32(n)) : n \in U32Values}]

\* struct Config { agent, projects }
Config ==
    [agent : [engine : {"claude", "codex"}, max_iterations : U32Values],
     projects : UNION {[1..n -> ProjectConfig] : n \in 0..MaxProjects}]

\* Path::is_absolute on a Unix path: it starts at the root.
is_absolute(path) == Len(path) > 0 /\ path[1] = "/"

\* An Err(String) of Config::validate: which message, and the index, name
\* or engine the message quotes.
ConfigErr(kind, idx, quoted) == Ret("Config::validate", kind, idx, NoId, quoted)

ConfigOk == Ret("Config::validate", "Ok", NoId, NoId, <<>>)

\* The checks of one project, in the order of the loop body. idx counts
\* from 0, as enumerate() does.
ProjectCheck(project, idx) ==
    IF project.name = ""
    THEN ConfigErr("EmptyName", idx, <<>>)
    ELSE IF ~is_absolute(project.repo_path)
    THEN ConfigErr("RepoPathNotAbsolute", NoId, <<project.name, project.repo_path>>)
    ELSE IF project.base_branch = ""
    THEN ConfigErr("EmptyBaseBranch", NoId, <<project.name>>)
    ELSE IF project.max_parallel = 0
    THEN ConfigErr("MaxParallelZero", NoId, <<project.name>>)
    ELSE IF project.overrides.some
            /\ project.overrides.max_iterations.some
            /\ project.overrides.max_iterations.value = 0
    THEN ConfigErr("OverrideMaxIterationsZero", NoId, <<project.name>>)
    ELSE ConfigOk

\* for (idx, project) in self.projects.iter().enumerate(): the first error.
RECURSIVE ProjectsScan(_, _)
ProjectsScan(projects, i) ==
    IF i > Len(projects) THEN ConfigOk
    ELSE LET e == ProjectCheck(projects[i], i - 1) IN
         IF e.kind # "Ok" THEN e ELSE ProjectsScan(projects, i + 1)

\* The two checks of the agent section.
AgentCheck(agent) ==
    IF agent.engine # "claude"
    THEN ConfigErr("UnsupportedEngine", NoId, <<agent.engine>>)
    ELSE IF agent.max_iterations = 0
    THEN ConfigErr("AgentMaxIterationsZero", NoId, <<>>)
    ELSE ConfigOk

\* Variant: the agent section is checked before the projects.
Config_validate_agent_first(c) ==
    LET a == AgentCheck(c.agent) IN
    IF a.kind # "Ok" THEN a
    ELSE IF c.projects = <<>> THEN ConfigErr("NoProjects", NoId, <<>>)
    ELSE ProjectsScan(c.projects, 1)

\* Config::validate
Config_validate(c) ==
    IF c.projects = <<>> THEN ConfigErr("NoProjects", NoId, <<>>)
    ELSE LET e == ProjectsScan(c.projects, 1) IN
         IF e.kind # "Ok" THEN e ELSE AgentCheck(c.agent)

\* A Config deserialized from a document or built as a literal.
ConfigInit ==
    /\ config \in Config
    /\ tasks = <<>>
    /\ pc = "idle"
    /\ ret = NoRet
    /\ sched = NoSched
    /\ kahn = NoKahn

ConfigValidate ==
    /\ pc = "idle"
    /\ ret' = Config_validate(config)
    /\ pc' = "returned"
    /\ UNCHANGED <<tasks, sched, config, kahn>>

ConfigNext ==
    \/ ConfigValidate
    \/ Return

ConfigSpec == ConfigInit /\ [][ConfigNext]_vars

----
(***************************************************************************)
(* validate() step by step: the two scans, then check_no_cycles() with    *)
(* its locals in `kahn`, one iteration of its while loop per step.         *)
(***************************************************************************)
KahnInit ==
    /\ tasks \in Inputs \cup WideInputs
    /\ pc = "idle"
    /\ ret = NoRet
    /\ sched = NoSched
    /\ config = ConfigNew
    /\ kahn = NoKahn

\* self.check_unique_ids()?; self.check_dependency_refs()?; one of them
\* returns its error and check_no_cycles() is not called.
ValidateEarly ==
    /\ pc = "idle"
    /\ LET u == check_unique_ids(tasks)
           e == IF u.kind # "Ok" THEN u ELSE check_dependency_refs(tasks)
       IN /\ e.kind # "Ok"
          /\ ret' = Ret("validate", e.kind, e.id, e.dep, <<>>)
    /\ pc' = "returned"
    /\ UNCHANGED <<tasks, sched, config, kahn>>

\* check_no_cycles() up to its while loop: in_degree, adj_list and the
\* queue of the ids of in-degree 0.
CheckNoCyclesStart ==
    /\ pc = "idle"
    /\ check_unique_ids(tasks).kind = "Ok"
    /\ check_dependency_refs(tasks).kind = "Ok"
    /\ \E order \in HashOrders(IdSet(tasks)), checks \in BOOLEAN :
         LET a == AdjList(tasks) IN
         /\ kahn' = [in_degree |-> InDegree(tasks),
                     adj_list |-> a.adj,
                     queue |-> ZeroDegree(InDegree(tasks), order, 1),
                     processed |-> 0,
                     popped |-> <<>>,
                     checks |-> checks,
                     panic |-> a.panic]
         /\ pc' = IF a.panic THEN "returned" ELSE "check_no_cycles"
         /\ ret' = IF a.panic
                   THEN Ret("validate", "Panic", NoId, NoId, <<>>) ELSE ret
    /\ UNCHANGED <<tasks, sched, config>>

\* One iteration of `while let Some(task_id) = queue.pop()`.
CheckNoCyclesPop ==
    /\ pc = "check_no_cycles"
    /\ kahn.queue # <<>>
    /\ LET task_id == kahn.queue[Len(kahn.queue)]
           rest == SubSeq(kahn.queue, 1, Len(kahn.queue) - 1)
           r == IF task_id \in DOMAIN kahn.adj_list
                THEN Relax(kahn.adj_list[task_id], 1, kahn.in_degree, rest,
                           kahn.checks)
                ELSE [panic |-> FALSE, in_degree |-> kahn.in_degree,
                      queue |-> rest]
       IN /\ kahn' = [kahn EXCEPT !.processed = @ + 1,
                                  !.popped = Append(@, task_id),
                                  !.in_degree = r.in_degree,
                                  !.queue = r.queue,
                                  !.panic = r.panic]
          /\ pc' = IF r.panic THEN "returned" ELSE "check_no_cycles"
          /\ ret' = IF r.panic
                    THEN Ret("validate", "Panic", NoId, NoId, <<>>) ELSE ret
    /\ UNCHANGED <<tasks, sched, config>>

\* The queue is empty: processed != self.tasks.len() is the cycle error.
CheckNoCyclesEnd ==
    /\ pc = "check_no_cycles"
    /\ kahn.queue = <<>>
    /\ ret' = Ret("validate",
                  IF kahn.processed # Len(tasks) THEN "Circular" ELSE "Ok",
                  NoId, NoId, <<>>)
    /\ pc' = "returned"
    /\ UNCHANGED <<tasks, sched, config, kahn>>

KahnNext ==
    \/ ValidateEarly
    \/ CheckNoCyclesStart
    \/ CheckNoCyclesPop
    \/ CheckNoCyclesEnd
    \/ Return

\* validate() is sequential code: a call that can take a step takes it.
KahnSpec == KahnInit /\ [][KahnNext]_vars /\ WF_vars(KahnNext)

----
(***************************************************************************)
(* The structural properties of a collection, stated on the collection    *)
(* itself and not through the checks that test them.                       *)
(***************************************************************************)
UniqueIds(ts) == \A i, j \in 1..Len(ts) : ts[i].id = ts[j].id => i = j

NoDangling(ts) ==
    \A i \in 1..Len(ts) : \A j \in 1..Len(ts[i].depends) :
        \E k \in 1..Len(ts) : ts[k].id = ts[i].depends[j]

\* <<x, y>>: a task with id x names y in its depends list.
DependsOn(ts) ==
    UNION {{<<ts[i].id, ts[i].depends[j]>> : j \in 1..Len(ts[i].depends)} :
           i \in 1..Len(ts)}

RECURSIVE Closure(_)
Closure(R) ==
    LET step == R \cup UNION {{<<p[1], q[2]>> : q \in {q \in R : q[1] = p[2]}} : p \in R}
    IN IF step = R THEN R ELSE Closure(step)

\* The ids that lie on a dependency cycle.
OnCycle(ts) == {p[1] : p \in {r \in Closure(DependsOn(ts)) : r[1] = r[2]}}

Acyclic(ts) == OnCycle(ts) = {}

WellFormed(ts) == UniqueIds(ts) /\ NoDangling(ts) /\ Acyclic(ts)

\* The id at the first position that repeats the id of an earlier position.
FirstRepeat(ts) ==
    LET rep == {i \in 1..Len(ts) : \E j \in 1..(i - 1) : ts[j].id = ts[i].id}
        i == CHOOSE i \in rep : \A k \in rep : i <= k
    IN ts[i].id

\* The first <<task id, missing id>> in collection order, then depends order.
FirstDangling(ts) ==
    LET bad == {p \in (1..Len(ts)) \X (1..MaxDeps + 1) :
                  /\ p[2] <= Len(ts[p[1]].depends)
                  /\ \A k \in 1..Len(ts) : ts[k].id # ts[p[1]].depends[p[2]]}
        m == CHOOSE p \in bad : \A q \in bad :
                  p[1] < q[1] \/ (p[1] = q[1] /\ p[2] <= q[2])
    IN <<ts[m[1]].id, ts[m[1]].depends[m[2]]>>

----
\* C1: validate() succeeds on every collection (the empty one included,
\* whatever the completed flags) that has no duplicate id, no depends entry
\* naming an absent id and no dependency cycle.
C1_ValidateAcceptsWellFormed ==
    (ret.op = "validate" /\ WellFormed(tasks)) => ret.kind = "Ok"

C1_Witness ==
    /\ ret.op = "validate" /\ ret.kind = "Ok"
    /\ Len(tasks) = MaxTasks /\ EdgeCount(tasks, 1) = MaxEdges
    /\ \E i, j \in 1..Len(tasks) : tasks[i].completed /\ ~tasks[j].completed

\* C2: with two or more tasks sharing an id, validate() fails with the
\* duplicate-ID error, and the id it names is the first repeat met when the
\* tasks are scanned in collection order.
C2_DuplicateIdFirstRepeat ==
    (ret.op = "validate" /\ ~UniqueIds(tasks)) =>
        (ret.kind = "DuplicateId" /\ ret.id = FirstRepeat(tasks))

\* Two ids are duplicated; the one repeated first is not the one seen first.
C2_Witness ==
    /\ ret.op = "validate" /\ ret.kind = "DuplicateId"
    /\ Len(tasks) = 4
    /\ tasks[1].id = tasks[4].id /\ tasks[2].id = tasks[3].id
    /\ tasks[1].id # tasks[2].id
    /\ ret.id = tasks[2].id

\* C3: with unique ids and some depends entry naming an absent id,
\* validate() fails with the dangling-dependency error naming the task and
\* the missing id of the first dangling reference, scanning the tasks in
\* collection order and each depends list in order.
C3_DanglingFirstReference ==
    (ret.op = "validate" /\ UniqueIds(tasks) /\ ~NoDangling(tasks)) =>
        (ret.kind = "DanglingDep" /\ <<ret.id, ret.dep>> = FirstDangling(tasks))

\* Two tasks both have a dangling entry, the first one after a valid entry.
C3_Witness ==
    /\ ret.op = "validate" /\ ret.kind = "DanglingDep"
    /\ Len(tasks) = 2 /\ UniqueIds(tasks)
    /\ Len(tasks[1].depends) = 2 /\ tasks[1].depends[1] = tasks[2].id
    /\ tasks[1].depends[2] \notin IdSet(tasks)
    /\ Len(tasks[2].depends) = 1 /\ tasks[2].depends[1] \notin IdSet(tasks)
    /\ ret.id = tasks[1].id /\ ret.dep = tasks[1].depends[2]

\* C4: with unique ids, no dangling reference and at least one dependency
\* cycle (a self-dependency included), validate() and topological_order()
\* both fail with the circular-dependency error, whatever acyclic tasks the
\* collection also holds.
C4_CycleRejected ==
    (ret.op \in {"validate", "topological_order"}
     /\ UniqueIds(tasks) /\ NoDangling(tasks) /\ ~Acyclic(tasks)) =>
        ret.kind = "Circular"

\* A self-dependent task with one task upstream of it and one downstream.
C4_Witness ==
    /\ ret.op = "topological_order" /\ ret.kind = "Circular"
    /\ Len(tasks) = 3 /\ UniqueIds(tasks) /\ NoDangling(tasks)
    /\ OnCycle(tasks) = {tasks[2].id}
    /\ tasks[1].depends = <<>>
    /\ tasks[2].depends = <<tasks[2].id, tasks[1].id>>
    /\ tasks[3].depends = <<tasks[2].id>>

\* C5: validate() runs uniqueness, then referential integrity, then
\* acyclicity and stops at the first failure: a duplicate id gives the
\* duplicate-ID error whatever else is wrong, unique ids with a dangling
\* reference give the dangling-dependency error even with a cycle, and the
\* circular-dependency error is given only when the first two checks pass.
C5_ValidateCheckOrder ==
    ret.op = "validate" =>
        /\ ~UniqueIds(tasks) => ret.kind = "DuplicateId"
        /\ (UniqueIds(tasks) /\ ~NoDangling(tasks)) => ret.kind = "DanglingDep"
        /\ ret.kind = "Circular" => (UniqueIds(tasks) /\ NoDangling(tasks))
        /\ ret.kind \in {"Ok", "DuplicateId", "DanglingDep", "Circular"}

\* A duplicate id, a dangling reference and a cycle in one collection.
C5_Witness ==
    /\ ret.op = "validate" /\ ret.kind = "DuplicateId"
    /\ ~UniqueIds(tasks) /\ ~NoDangling(tasks) /\ ~Acyclic(tasks)

\* Some run of validate() on ts succeeds.
PassesValidate(ts) ==
    \E order \in HashOrders(IdSet(ts)), checks \in BOOLEAN :
        validate(ts, order, checks).kind = "Ok"

\* C6: on a collection that passes validate(), topological_order() succeeds
\* and returns every task exactly once, completed or not, each task after
\* every task its depends list names.
C6_TopologicalOrderValid ==
    (ret.op = "topological_order" /\ PassesValidate(tasks)) =>
        /\ ret.kind = "Ok"
        /\ Len(ret.list) = Len(tasks)
        /\ \A i \in 1..Len(tasks) :
               Cardinality({p \in 1..Len(ret.list) : ret.list[p] = tasks[i]}) = 1
        /\ \A p \in 1..Len(ret.list) : \A j \in 1..Len(ret.list[p].depends) :
               \E q \in 1..(p - 1) : ret.list[q].id = ret.list[p].depends[j]

\* Three tasks stored against their dependency order, one of them completed.
C6_Witness ==
    /\ ret.op = "topological_order" /\ ret.kind = "Ok"
    /\ Len(tasks) = 3
    /\ tasks[1].depends = <<tasks[2].id, tasks[3].id>>
    /\ tasks[2].depends = <<tasks[3].id>>
    /\ tasks[3].depends = <<>>
    /\ tasks[1].completed /\ ~tasks[2].completed
    /\ ret.list = <<tasks[3], tasks[2], tasks[1]>>

\* A task is ready: it is not completed and every id in its depends list is
\* the id of a completed task.
IsReady(ts, t) ==
    /\ ~t.completed
    /\ \A d \in {t.depends[j] : j \in 1..Len(t.depends)} :
           \E k \in 1..Len(ts) : ts[k].id = d /\ ts[k].completed

\* The subsequence of ts at the positions in P, in order.
RECURSIVE SubsequenceAt(_, _, _)
SubsequenceAt(ts, P, i) ==
    IF i > Len(ts) THEN <<>>
    ELSE (IF i \in P THEN <<ts[i]>> ELSE <<>>) \o SubsequenceAt(ts, P, i + 1)

\* C7: on a validated collection, whatever the completed flags,
\* get_ready_tasks() returns exactly the tasks that are not completed and
\* whose depends entries all name completed tasks, in insertion order.
C7_ReadyTasksExact ==
    (ret.op = "get_ready_tasks" /\ PassesValidate(tasks)) =>
        ret.list = SubsequenceAt(tasks,
                       {i \in 1..Len(tasks) : IsReady(tasks, tasks[i])}, 1)

\* A completed task, a task waiting on it alone and a task waiting on both:
\* only the second is ready.
C7_Witness ==
    /\ ret.op = "get_ready_tasks"
    /\ Len(tasks) = 3 /\ PassesValidate(tasks)
    /\ tasks[1].completed /\ ~tasks[2].completed /\ ~tasks[3].completed
    /\ tasks[2].depends = <<tasks[1].id>>
    /\ tasks[3].depends = <<tasks[1].id, tasks[2].id>>
    /\ ret.list = <<tasks[2]>>

\* A dependency id is unsatisfied: no task has it, or the task that has it
\* is not completed.
IsUnsatisfied(ts, d) ==
    \/ \A k \in 1..Len(ts) : ts[k].id # d
    \/ \E k \in 1..Len(ts) : ts[k].id = d /\ ~ts[k].completed

\* The entries of depends that are unsatisfied, in order.
RECURSIVE UnsatisfiedEntries(_, _, _)
UnsatisfiedEntries(ts, depends, j) ==
    IF j > Len(depends) THEN <<>>
    ELSE (IF IsUnsatisfied(ts, depends[j]) THEN <<depends[j]>> ELSE <<>>)
         \o UnsatisfiedEntries(ts, depends, j + 1)

\* C8: get_blocked_tasks() returns, in insertion order, exactly the
\* not-completed tasks with at least one unsatisfied dependency, each with
\* the entries of its depends list that are unsatisfied: those naming no
\* task of the collection or a task that is not completed. The ids being
\* unique, "the task with that id" is one task.
C8_BlockedTasksExact ==
    (ret.op = "get_blocked_tasks" /\ UniqueIds(tasks)) =>
        LET B == {i \in 1..Len(tasks) :
                    /\ ~tasks[i].completed
                    /\ \E j \in 1..Len(tasks[i].depends) :
                           IsUnsatisfied(tasks, tasks[i].depends[j])}
        IN /\ Len(ret.list) = Cardinality(B)
           /\ \A p \in 1..Len(ret.list) :
                 /\ ret.list[p].task = SubsequenceAt(tasks, B, 1)[p]
                 /\ ret.list[p].unsatisfied =
                        UnsatisfiedEntries(tasks, ret.list[p].task.depends, 1)

\* A task waiting on a completed task and on an id no task has.
C8_Witness ==
    /\ ret.op = "get_blocked_tasks"
    /\ Len(tasks) = 2 /\ UniqueIds(tasks)
    /\ tasks[1].completed /\ ~tasks[2].completed
    /\ Len(tasks[2].depends) = 2
    /\ tasks[2].depends[1] = tasks[1].id
    /\ tasks[2].depends[2] \notin IdSet(tasks)
    /\ ret.list = <<[task |-> tasks[2], unsatisfied |-> <<tasks[2].depends[2]>>]>>

\* C9: two computations of topological_order() on the same unmodified
\* collection produce the same sequence: the value a call returned is the
\* value every other computation on that collection returns.
C9_TopologicalOrderDeterministic ==
    (ret.op = "topological_order" /\ WellFormed(tasks)) =>
        \A order \in HashOrders(IdSet(tasks)), checks \in BOOLEAN :
            LET t == topological_order(tasks, order, checks) IN
            t.kind = ret.kind /\ t.list = ret.list

\* C10: load_from validates the parsed collection before returning it: it
\* returns the collection only if validate() succeeded on it, so what it
\* returns has unique ids, no dangling reference and no cycle; when
\* validation fails the load fails with that error and returns no
\* collection.
C10_LoadFromValidates ==
    ret.op = "load_from" =>
        /\ ret.kind = "Ok" =>
               (ret.list = tasks /\ PassesValidate(ret.list) /\ WellFormed(ret.list))
        /\ ~WellFormed(tasks) => ret.kind # "Ok"
        /\ ret.kind # "Ok" => ret.list = <<>>
        /\ ret.kind \in {"DuplicateId", "DanglingDep", "Circular"} =>
               \E order \in HashOrders(IdSet(tasks)), checks \in BOOLEAN :
                   validate(tasks, order, checks) =
                       [kind |-> ret.kind, id |-> ret.id, dep |-> ret.dep]
        /\ ret.kind \in {"Ok", "ReadFailed", "ParseFailed",
                         "DuplicateId", "DanglingDep", "Circular"}

\* A document whose first task is sound and whose other two form a cycle:
\* the load fails and hands back nothing.
C10_Witness ==
    /\ ret.op = "load_from" /\ ret.kind = "Circular" /\ ret.list = <<>>
    /\ Len(tasks) = 3 /\ UniqueIds(tasks)
    /\ tasks[1].depends = <<>>
    /\ tasks[2].depends = <<tasks[3].id>>
    /\ tasks[3].depends = <<tasks[2].id>>

\* C11: topological_order() on a collection that was not validated returns
\* an error value, and neither panics nor returns an order, whenever the
\* collection has a duplicate id, a depends entry naming no task, or a cycle.
C11_TopologicalOrderTypedFailure ==
    (ret.op = "topological_order" /\ ~WellFormed(tasks)) =>
        ret.kind \notin {"Ok", "Panic"}

\* The ids of a list of tasks.
IdsOf(list) == {list[p].id : p \in 1..Len(list)}

\* The ids in the depends list of ts[i] whose task was not completed before
\* the ids in `marked` were marked.
UnsatisfiedBefore(ts, i, marked) ==
    {d \in {ts[i].depends[j] : j \in 1..Len(ts[i].depends)} :
        d \in marked \/ \E k \in 1..Len(ts) : ts[k].id = d /\ ~ts[k].completed}

\* C12: every query is computed from the current completed flags: after any
\* completion steps on a validated collection get_ready_tasks() is the
\* readiness predicate on the current flags, and once ready tasks were
\* marked completed it returns the previous ready tasks less the marked
\* ones plus exactly the incomplete tasks whose unsatisfied dependencies
\* were all among the marked ones.
C12_ReadyRecomputed ==
    ret.op = "get_ready_tasks" =>
        /\ ret.list = SubsequenceAt(tasks,
                          {i \in 1..Len(tasks) : IsReady(tasks, tasks[i])}, 1)
        /\ sched.steps > 0 =>
               IdsOf(ret.list) =
                   (IdsOf(sched.prev) \ sched.marked)
                   \cup {tasks[i].id : i \in
                           {i \in 1..Len(tasks) :
                              /\ ~tasks[i].completed
                              /\ tasks[i].id \notin IdsOf(sched.prev)
                              /\ UnsatisfiedBefore(tasks, i, sched.marked) # {}
                              /\ UnsatisfiedBefore(tasks, i, sched.marked)
                                     \subseteq sched.marked}}

\* A done, B waiting on A, C waiting on B, D independent: the ready tasks
\* were B and D, B was marked completed, and they are now C and D.
C12_Witness ==
    /\ ret.op = "get_ready_tasks"
    /\ Len(tasks) = 4
    /\ tasks[1].depends = <<>> /\ tasks[1].completed
    /\ tasks[2].depends = <<tasks[1].id>> /\ tasks[2].completed
    /\ tasks[3].depends = <<tasks[2].id>>
    /\ tasks[4].depends = <<>>
    /\ sched.prev = <<[tasks[2] EXCEPT !.completed = FALSE], tasks[4]>>
    /\ sched.marked = {tasks[2].id}
    /\ ret.list = <<tasks[3], tasks[4]>>

\* The collections got from ts by adding, at the end of one task's depends
\* list, a second copy of an id the list already holds.
WithDuplicate(ts) ==
    {[ts EXCEPT ![i].depends = Append(@, ts[i].depends[j])] :
        <<i, j>> \in {p \in (1..Len(ts)) \X (1..MaxDeps) : p[2] <= Len(ts[p[1]].depends)}}

\* Each dependency of a task of the list stands before it.
DependenciesFirst(list) ==
    \A p \in 1..Len(list) : \A j \in 1..Len(list[p].depends) :
        \E q \in 1..(p - 1) : list[q].id = list[p].depends[j]

\* The ids of a list of tasks, in order.
IdSeq(list) == [p \in 1..Len(list) |-> list[p].id]

\* The ids of a list of blocked tasks with their unsatisfied lists, in order.
BlockedSeq(list) ==
    [p \in 1..Len(list) |-> <<list[p].task.id, list[p].unsatisfied>>]

\* C14: a second copy of an id in a depends list changes no result: not the
\* outcome of validate(), not the success of topological_order() nor the
\* ordering constraint on its result, not the tasks get_ready_tasks()
\* returns, and not the tasks get_blocked_tasks() returns nor the
\* unsatisfied-dependency list reported for each.
C14_DuplicateDependsNoEffect ==
    \A ts2 \in WithDuplicate(tasks) :
        /\ ret.op = "validate" =>
               \E order \in HashOrders(IdSet(ts2)), checks \in BOOLEAN :
                   validate(ts2, order, checks) =
                       [kind |-> ret.kind, id |-> ret.id, dep |-> ret.dep]
        /\ (ret.op = "topological_order" /\ WellFormed(tasks)) =>
               \A order \in HashOrders(IdSet(ts2)), checks \in BOOLEAN :
                   LET t == topological_order(ts2, order, checks) IN
                   t.kind = ret.kind /\ DependenciesFirst(t.list)
        /\ (ret.op = "get_ready_tasks" /\ WellFormed(tasks)) =>
               IdSeq(get_ready_tasks(ts2)) = IdSeq(ret.list)
        /\ (ret.op = "get_blocked_tasks" /\ WellFormed(tasks)) =>
               BlockedSeq(get_blocked_tasks(ts2)) = BlockedSeq(ret.list)

\* The checks of Config::validate in their order, each with whether it
\* fails and the error it then gives.
ConfigChecks(c) ==
    LET perProject(i) ==
          LET p == c.projects[i] IN
          << <<p.name = "", ConfigErr("EmptyName", i - 1, <<>>)>>,
             <<~(Len(p.repo_path) > 0 /\ Head(p.repo_path) = "/"),
               ConfigErr("RepoPathNotAbsolute", NoId, <<p.name, p.repo_path>>)>>,
             <<p.base_branch = "", ConfigErr("EmptyBaseBranch", NoId, <<p.name>>)>>,
             <<~(p.max_parallel > 0), ConfigErr("MaxParallelZero", NoId, <<p.name>>)>>,
             <<p.overrides = SomeOverrides(SomeU32(0)),
               ConfigErr("OverrideMaxIterationsZero", NoId, <<p.name>>)>> >>
        all[i \in 0..Len(c.projects)] ==
          IF i = 0 THEN << <<Len(c.projects) = 0, ConfigErr("NoProjects", NoId, <<>>)>> >>
          ELSE all[i - 1] \o perProject(i)
    IN all[Len(c.projects)]
       \o << <<c.agent.engine # "claude",
               ConfigErr("UnsupportedEngine", NoId, <<c.agent.engine>>)>>,
             <<~(c.agent.max_iterations > 0),
               ConfigErr("AgentMaxIterationsZero", NoId, <<>>)>> >>

\* C15: Config::validate() returns Ok exactly when there is a project, every
\* project has a non-empty name, an absolute repo_path, a non-empty
\* base_branch, max_parallel > 0 and no override max_iterations of 0, the
\* engine is "claude" and agent.max_iterations > 0; otherwise it returns the
\* error of the first failing check, the project list first, then the
\* projects in order, then the engine, then agent.max_iterations.
C15_ConfigValidate ==
    ret.op = "Config::validate" =>
        LET checks == ConfigChecks(config)
            failing == {k \in 1..Len(checks) : checks[k][1]}
        IN IF failing = {} THEN ret = ConfigOk
           ELSE ret = checks[CHOOSE k \in failing : \A m \in failing : k <= m][2]

\* The second project has a zero override and the engine is unsupported
\* too: the override error of that project is the one returned.
C15_Witness ==
    /\ ret.op = "Config::validate" /\ ret.kind = "OverrideMaxIterationsZero"
    /\ Len(config.projects) = 2
    /\ config.projects[1].overrides = SomeOverrides(SomeU32(1))
    /\ config.projects[2].overrides = SomeOverrides(SomeU32(0))
    /\ config.agent.engine # "claude" /\ config.agent.max_iterations = 0

\* C16: for a graph that passes validate(), whatever its completed flags,
\* remaining_tasks() > 0 implies that get_ready_tasks() is non-empty.
C16_NoDeadlock ==
    (ret.op = "get_ready_tasks" /\ PassesValidate(tasks) /\ remaining_tasks(tasks) > 0)
        => ret.list # <<>>

\* A validated chain 1 <- 2 <- 3 given in reverse, its head completed: the
\* middle task is the one ready task and the last one is still blocked.
C16_Witness ==
    /\ ret.op = "get_ready_tasks" /\ PassesValidate(tasks)
    /\ Len(tasks) = 3 /\ remaining_tasks(tasks) = 2
    /\ tasks[1].depends = <<tasks[2].id>> /\ tasks[2].depends = <<tasks[3].id>>
    /\ tasks[3].completed
    /\ Len(ret.list) = 1 /\ ret.list[1] = tasks[2]

\* C17: the scheduling cycle on a validated collection terminates: every
\* completion step strictly decreases remaining_tasks(), the steps taken
\* never exceed the number of tasks that were incomplete at the start, and
\* the cycle reaches, and stays in, a state where remaining_tasks() = 0 and
\* get_ready_tasks() and get_blocked_tasks() are both empty.
C17_SchedulingTerminates ==
    /\ [][sched'.steps # sched.steps
            => remaining_tasks(tasks') < remaining_tasks(tasks)]_vars
    /\ [](sched.steps + remaining_tasks(tasks) <= sched.start)
    /\ [](ret.op \in {"get_ready_tasks", "get_blocked_tasks"}
            /\ remaining_tasks(tasks) = 0 => ret.list = <<>>)
    /\ <>[](/\ remaining_tasks(tasks) = 0
            /\ get_ready_tasks(tasks) = <<>>
            /\ get_blocked_tasks(tasks) = <<>>)

\* A chain of three tasks and a fourth apart, none completed at the start,
\* done in four steps: nothing remains and the blocked tasks are asked for
\* and empty.
C17_Witness ==
    /\ Len(tasks) = 4 /\ sched.start = 4 /\ sched.steps = 4
    /\ \A i \in 2..3 : tasks[i].depends = <<tasks[i - 1].id>>
    /\ remaining_tasks(tasks) = 0
    /\ ret.op = "get_blocked_tasks" /\ ret.list = <<>>

\* Every task with its completed flag set has the tasks its depends list
\* names completed.
DepClosed(ts) ==
    \A i, k \in 1..Len(ts) :
        (ts[i].completed /\ \E j \in 1..Len(ts[i].depends) : ts[i].depends[j] = ts[k].id)
            => ts[k].completed

\* The positions whose flag a step sets.
NewlyCompleted(ts, ts2) == {i \in 1..Len(ts) : ~ts[i].completed /\ ts2[i].completed}

\* C18: when the only mutation is setting completed on tasks the last
\* get_ready_tasks() returned, a dependency-closed completed set stays
\* dependency-closed, and completions follow the dependency relation: a task
\* is completed only in a step after the one that completed each of its
\* dependencies (or these were completed from the start).
C18_NoOutOfOrder ==
    [][/\ DepClosed(tasks) => DepClosed(tasks')
       /\ \A i \in NewlyCompleted(tasks, tasks'), k \in 1..Len(tasks) :
              (\E j \in 1..Len(tasks[i].depends) : tasks[i].depends[j] = tasks[k].id)
                  => tasks[k].completed]_vars

\* Four tasks, none completed at the start, the second waiting on the first
\* and the fourth on the third: the first step completed the first and the
\* third, the second step the second, and the fourth is now ready.
C18_Witness ==
    /\ Len(tasks) = 4 /\ sched.start = 4 /\ sched.steps = 2
    /\ tasks[2].depends = <<tasks[1].id>> /\ tasks[4].depends = <<tasks[3].id>>
    /\ sched.marked = {tasks[2].id}
    /\ tasks[1].completed /\ tasks[2].completed /\ tasks[3].completed
    /\ ~tasks[4].completed
    /\ DepClosed(tasks)
    /\ ret.op = "get_ready_tasks" /\ ret.list = <<tasks[4]>>

\* How often t occurs in a list.
Occurrences(list, t) == Cardinality({p \in 1..Len(list) : list[p] = t})

\* The tasks of a list of blocked tasks.
BlockedTasks(list) == [p \in 1..Len(list) |-> list[p].task]

\* C19: for every collection and every assignment of completed flags, each
\* not-completed task is in exactly one of get_ready_tasks() and
\* get_blocked_tasks() and no completed task is in either, so that
\* |ready| + |blocked| = remaining_tasks() = |incomplete_tasks()| and
\* completed_tasks() + remaining_tasks() = total_tasks().
C19_ReadyBlockedPartition ==
    ret.op \in {"get_ready_tasks", "get_blocked_tasks"} =>
        LET ready == IF ret.op = "get_ready_tasks"
                     THEN ret.list ELSE get_ready_tasks(tasks)
            blocked == BlockedTasks(IF ret.op = "get_blocked_tasks"
                                    THEN ret.list ELSE get_blocked_tasks(tasks))
        IN /\ \A i \in 1..Len(tasks) :
                 LET t == tasks[i] IN
                 IF t.completed
                 THEN Occurrences(ready, t) = 0 /\ Occurrences(blocked, t) = 0
                 ELSE /\ Occurrences(ready, t) + Occurrences(blocked, t)
                             = Occurrences(tasks, t)
                      /\ Occurrences(ready, t) = 0 \/ Occurrences(blocked, t) = 0
           /\ Len(ready) + Len(blocked) = remaining_tasks(tasks)
           /\ remaining_tasks(tasks) = Len(incomplete_tasks(tasks))
           /\ completed_tasks(tasks) + remaining_tasks(tasks) = total_tasks(tasks)

\* One task completed, one ready, one waiting on an id that no task has:
\* get_blocked_tasks() returns the third alone.
C19_Witness ==
    /\ ret.op = "get_blocked_tasks"
    /\ Len(tasks) = 3
    /\ tasks[1].completed /\ ~tasks[2].completed /\ ~tasks[3].completed
    /\ tasks[2].depends = <<tasks[1].id>>
    /\ Len(tasks[3].depends) = 1 /\ tasks[3].depends[1] \notin IdSet(tasks)
    /\ BlockedTasks(ret.list) = <<tasks[3]>>
    /\ get_ready_tasks(tasks) = <<tasks[2]>>

\* ts with the completed flag of its i-th task flipped.
Flip(ts, i) == [ts EXCEPT ![i].completed = ~@]

\* C20: the outcome of validate() and the success or failure of
\* topological_order() do not depend on the completed flags: whatever a call
\* returned, a call on the collection with one flag flipped can return the
\* same (and so, flip after flip, with any flags); a collection that passed
\* validate() passes it after the flip and still has unique ids, no
\* dangling reference and no cycle.
C20_ValidityIgnoresCompleted ==
    /\ ret.op = "validate" =>
          \A i \in 1..Len(tasks) :
              /\ \E order \in HashOrders(IdSet(tasks)), checks \in BOOLEAN :
                     LET v == validate(Flip(tasks, i), order, checks) IN
                     v.kind = ret.kind /\ v.id = ret.id /\ v.dep = ret.dep
              /\ ret.kind = "Ok" =>
                     PassesValidate(Flip(tasks, i)) /\ WellFormed(Flip(tasks, i))
    /\ ret.op = "topological_order" =>
          \A i \in 1..Len(tasks) :
              \E order \in HashOrders(IdSet(tasks)), checks \in BOOLEAN :
                  topological_order(Flip(tasks, i), order, checks).kind = ret.kind

\* validate() rejected a cycle between a completed and a not-completed task.
C20_Witness ==
    /\ ret.op = "validate" /\ ret.kind = "Circular"
    /\ Len(tasks) = 3
    /\ tasks[1].completed /\ ~tasks[2].completed
    /\ tasks[1].depends = <<tasks[2].id>> /\ tasks[2].depends = <<tasks[1].id>>

\* The step-by-step validate() returns what validate() returns.
KahnStepsAgree ==
    (pc = "returned" /\ ret.op = "validate") =>
        \E order \in HashOrders(IdSet(tasks)) :
            LET v == validate(tasks, order, kahn.checks) IN
            v.kind = ret.kind /\ v.id = ret.id /\ v.dep = ret.dep

\* C21: whenever validate() reaches the Kahn elimination (unique ids, no
\* dangling reference) the elimination is well-defined: no lookup of a
\* depends entry or of a dependent fails and no overflow check trips, no
\* in-degree goes below zero, no task is taken from the work list twice,
\* the processed count never exceeds the number of tasks and equals it at
\* the end exactly when the graph has no cycle, and the loop terminates.
C21_KahnWellDefined ==
    /\ [](~kahn.panic)
    /\ [](\A k \in DOMAIN kahn.in_degree : kahn.in_degree[k] >= 0)
    /\ [](\A p, q \in 1..Len(kahn.popped) :
             kahn.popped[p] = kahn.popped[q] => p = q)
    /\ [](kahn.processed = Len(kahn.popped) /\ kahn.processed <= Len(tasks))
    /\ []((pc = "returned" /\ ret.kind \notin {"DuplicateId", "DanglingDep"})
             => /\ (kahn.processed = Len(tasks)) <=> Acyclic(tasks)
                /\ (ret.kind = "Ok") <=> Acyclic(tasks))
    /\ (pc = "check_no_cycles") ~> (pc = "returned")

\* A diamond closed by a repeated depends entry: the third task names the
\* second twice. All three were processed, each once, and every in-degree
\* ended at zero.
C21_Witness ==
    /\ pc = "returned" /\ ret.op = "validate" /\ ret.kind = "Ok"
    /\ Len(tasks) = 3
    /\ tasks[1].depends = <<>>
    /\ tasks[2].depends = <<tasks[1].id>>
    /\ tasks[3].depends = <<tasks[2].id, tasks[2].id>>
    /\ kahn.processed = 3
    /\ kahn.popped = <<tasks[1].id, tasks[2].id, tasks[3].id>>
    /\ \A k \in DOMAIN kahn.in_degree : kahn.in_degree[k] = 0

\* A task outside a two-task cycle: the elimination ended after one task.
C21_WitnessCycle ==
    /\ pc = "returned" /\ ret.op = "validate" /\ ret.kind = "Circular"
    /\ Len(tasks) = 3
    /\ tasks[2].depends = <<tasks[3].id>> /\ tasks[3].depends = <<tasks[2].id>>
    /\ kahn.processed = 1 /\ kahn.popped = <<tasks[1].id>>

====
